---- MODULE Spec2Model ----
(***************************************************************************)
(* STACSearch (open_geodata_api/core/search.py): the 3-tier fallback that  *)
(* materialises the complete result set of one search instance.            *)
(*                                                                         *)
(* An item record is represented by its 'id': a positive number is a       *)
(* non-empty identifier, 0 is a record whose id is missing or empty.       *)
(* The two retrieval collaborators (pystac-client pagination, the client's *)
(* _fallback_chunking_search) are external: a call to one of them is a     *)
(* position of the running operation (pc), and what it answers is chosen   *)
(* by the environment.                                                     *)
(***************************************************************************)
EXTENDS Integers, Sequences, FiniteSets, TLC

VARIABLES
    _results,                 \* self._results: the raw search results
    _items,                   \* self._items: the direct-page item records
    _client,                  \* self._client: "None", "plain" or "chunking"
    _original_params,         \* self._original_params
    _fallback_attempted,      \* self._fallback_attempted
    _pystac_attempted,        \* self._pystac_attempted
    _chunking_attempted,      \* self._chunking_attempted
    _all_items_cached,        \* self._all_items_cached
    _all_items_cache,         \* self._all_items_cache (None or a collection)
    _fallback_metadata_cache, \* self._fallback_metadata_cache (a dict)
    PYSTAC_AVAILABLE,         \* module flag set by the import at load time
    pc,                       \* "idle", or the collaborator the operation waits on
    cur_op,                   \* the operation running (or the last one run)
    ret,                      \* what the last completed operation returned
    pystac_calls,             \* call count of the paginated collaborator
    chunking_calls,           \* call count of the chunked collaborator
    pystac_answer,            \* what the paginated collaborator was seen to do
    chunking_answer,          \* what the chunked collaborator was seen to do
    first_all,                \* the first get_all_items()/item_collection() result
    searches,                 \* several STACSearch objects made with one client
    dicts,                    \* the dict objects their _fallback_metadata_cache name
    acting,                   \* the search object the last operation ran on
    stac_items,               \* filter_by_geometry: the item collection given
    geometry,                 \* filter_by_geometry: the geometry input given
    filtered_items,           \* filter_by_geometry: what the call gave back
    collections,              \* EarthSearchCollections.collections: known ids
    search_pc,                \* search: "ready", or "post" while the request is out
    search_args,              \* search: the arguments of the call
    search_payload,           \* search: the payload of the request sent
    requests_sent,            \* number of search requests sent
    search_outcome,           \* search: what the call gave back
    datetime_input,           \* _format_datetime_rfc3339: its argument
    formatted_datetime,       \* _format_datetime_rfc3339: what it returned
    reformatted_datetime      \* ... and what it returned for its own result

\* the fields and the caller's view of the one search instance
search_vars == <<_results, _items, _client, _original_params,
                 _fallback_attempted, _pystac_attempted, _chunking_attempted,
                 _all_items_cached, _all_items_cache, _fallback_metadata_cache,
                 pc, cur_op, ret, pystac_calls, chunking_calls, pystac_answer,
                 chunking_answer, first_all>>

\* the search objects that share a client
pair_vars == <<searches, dicts, acting>>

\* one call of filter_by_geometry
filter_vars == <<stac_items, geometry, filtered_items>>

\* the EarthSearch client and one search call on it
client_vars == <<collections, search_pc, search_args, search_payload,
                 requests_sent, search_outcome>>

\* one datetime input and its formatting
datetime_vars == <<datetime_input, formatted_datetime, reformatted_datetime>>

vars == <<search_vars, PYSTAC_AVAILABLE, pair_vars, filter_vars, client_vars,
          datetime_vars>>

-----------------------------------------------------------------------------
(* Bounds and program constants *)

\* len(self._items) == 100: the truncation signal
TruncationThreshold == 100

\* short item sequences have 0..MaxShort records
MaxShort == 2

\* the longest item sequence a collaborator answers with
MaxFetched == 250

\* the largest page size a search is issued with
MaxLimit == 250

\* coordinates are 0..MaxCoord
MaxCoord == 2

\* filter_by_geometry is given 0..MaxItems items
MaxItems == 2

\* search_payload["limit"] = min(limit, 1000)
MaxPageSize == 1000

\* limit: int = 100
DefaultLimit == 100

-----------------------------------------------------------------------------
(* Item sequences *)

\* n item records; ragged sequences have records without id and repeated ids
Records(n, base, ragged) ==
    [i \in 1..n |-> IF ragged
                    THEN (IF i % 2 = 0 THEN 0 ELSE base + 1 + (i % 3))
                    ELSE base + i]

DirectCounts ==
    (0..MaxShort) \cup
    {TruncationThreshold - 1, TruncationThreshold, TruncationThreshold + 1}

FetchedCounts == {0, MaxShort, TruncationThreshold, MaxFetched}

DirectPages == {Records(n, 0, r) : n \in DirectCounts, r \in BOOLEAN}

PystacResults == {Records(n, 1000, r) : n \in FetchedCounts, r \in BOOLEAN}

ChunkedResults == {Records(n, 2000, FALSE) : n \in FetchedCounts}

-----------------------------------------------------------------------------
(* STACItemCollection and Python values *)

NoneCollection == [isNone |-> TRUE, items |-> <<>>]

STACItemCollection(item_list) == [isNone |-> FALSE, items |-> item_list]

\* truth value of `if collection:`: None is false, and a container that
\* has a length is false when it is empty
Truthy(c) == ~c.isNone /\ Len(c.items) > 0

EmptyDict == [k \in {} |-> 0]

DictPut(d, key, value) ==
    [k \in (DOMAIN d) \cup {key} |-> IF k = key THEN value ELSE d[k]]

NoStatus ==
    [fallback_attempted |-> FALSE, pystac_attempted |-> FALSE,
     chunking_attempted |-> FALSE, all_items_cached |-> FALSE,
     cache_metadata |-> EmptyDict, original_items_count |-> 0,
     cached_items_count |-> 0, cached_items_none |-> TRUE]

\* a returned value: kind says which of the fields carries it
Value(kind) ==
    [kind |-> kind, items |-> <<>>, n |-> 0, ids |-> {}, text |-> "",
     status |-> NoStatus]

NoValue == Value("nothing")

\* what a mocked collaborator records of its call
Answer(kind, item_list) == [kind |-> kind, items |-> item_list]

NotCalled == Answer("not called", <<>>)

\* the record of the first "all items" call: the operation and its result
FirstCall(op, item_list) == [isNone |-> FALSE, by |-> op, items |-> item_list]

NoFirstCall == [isNone |-> TRUE, by |-> "", items |-> <<>>]

-----------------------------------------------------------------------------
(* The instance as a record of its fields *)

Self ==
    [results |-> _results, items |-> _items, client |-> _client,
     original_params |-> _original_params,
     fallback_attempted |-> _fallback_attempted,
     pystac_attempted |-> _pystac_attempted,
     chunking_attempted |-> _chunking_attempted,
     all_items_cached |-> _all_items_cached,
     all_items_cache |-> _all_items_cache,
     fallback_metadata_cache |-> _fallback_metadata_cache]

Store(s) ==
    /\ _results' = s.results
    /\ _items' = s.items
    /\ _client' = s.client
    /\ _original_params' = s.original_params
    /\ _fallback_attempted' = s.fallback_attempted
    /\ _pystac_attempted' = s.pystac_attempted
    /\ _chunking_attempted' = s.chunking_attempted
    /\ _all_items_cached' = s.all_items_cached
    /\ _all_items_cache' = s.all_items_cache
    /\ _fallback_metadata_cache' = s.fallback_metadata_cache

\* where get_all_items() stands: returned val, raised, or waiting on a tier
Returned(s, val) == [pc |-> "idle", s |-> s, raised |-> FALSE, val |-> val]

Raised(s) == [pc |-> "idle", s |-> s, raised |-> TRUE, val |-> NoneCollection]

Pending(tier, s) == [pc |-> tier, s |-> s, raised |-> FALSE, val |-> NoneCollection]

\* what a _try_*_fallback() call came to: a collection, None, or an exception
TierResult(s, val) == [s |-> s, raised |-> FALSE, val |-> val]

TierRaised(s) == [s |-> s, raised |-> TRUE, val |-> NoneCollection]

-----------------------------------------------------------------------------
(* STACSearch.__init__ *)

\* search results as the clients build them
SearchResults(item_list, cached) ==
    [features |-> item_list, total_returned |-> Len(item_list),
     all_items_cached |-> cached]

\* __init__(search_results, client_instance, original_search_params)
STACSearch(search_results, client_instance, original_search_params) ==
    [results |-> search_results,
     items |-> search_results.features,
     client |-> client_instance,
     original_params |-> original_search_params,
     fallback_attempted |-> FALSE,
     pystac_attempted |-> FALSE,
     chunking_attempted |-> FALSE,
     all_items_cached |-> search_results.all_items_cached,
     all_items_cache |-> IF search_results.all_items_cached
                         THEN STACItemCollection(search_results.features)
                         ELSE NoneCollection,
     fallback_metadata_cache |-> EmptyDict]

-----------------------------------------------------------------------------
(* The attempted flags *)

SetAttempted_Forgotten(s, flag) == s

\* self._fallback_attempted = True, self._pystac_attempted = True,
\* self._chunking_attempted = True
SetAttempted(s, flag) ==
    CASE flag = "fallback" -> [s EXCEPT !.fallback_attempted = TRUE]
      [] flag = "pystac"   -> [s EXCEPT !.pystac_attempted = TRUE]
      [] flag = "chunking" -> [s EXCEPT !.chunking_attempted = TRUE]

-----------------------------------------------------------------------------
(* _try_chunking_fallback: tier 3 *)

\* up to the call of self._client._fallback_chunking_search
TryChunkingEntry(s) ==
    IF s.chunking_attempted
    THEN [call |-> FALSE, s |-> s]
    ELSE [call |-> s.client = "chunking", s |-> SetAttempted(s, "chunking")]

\* the collaborator returned chunked_items
TryChunkingReturns(s, chunked_items) ==
    LET c == STACItemCollection(chunked_items)
    IN  TierResult([s EXCEPT
            !.fallback_metadata_cache =
                DictPut(@, "chunking_matched", Len(chunked_items)),
            !.all_items_cache = c,
            !.all_items_cached = TRUE], c)

\* except Exception: return None
TryChunkingRaises(s) == TierResult(s, NoneCollection)

AfterChunking_NoDirectPage(r) ==
    IF r.raised THEN Raised(r.s)
    ELSE Returned(r.s, r.val)

\* get_all_items after _try_chunking_fallback returned
AfterChunking(r) ==
    IF r.raised THEN Raised(r.s)
    ELSE IF Truthy(r.val) THEN Returned(r.s, r.val)
    ELSE Returned(r.s, STACItemCollection(r.s.items))

\* get_all_items calls _try_chunking_fallback
StartChunking(s) ==
    LET e == TryChunkingEntry(s)
    IN  IF e.call THEN Pending("tier3", e.s)
        ELSE AfterChunking(TierResult(e.s, NoneCollection))

-----------------------------------------------------------------------------
(* _try_pystac_fallback: tier 2 *)

TryPystacEntry_IgnoresAvailability(s) ==
    IF s.pystac_attempted
    THEN [call |-> FALSE, s |-> s]
    ELSE [call |-> TRUE, s |-> SetAttempted(s, "pystac")]

\* up to the call of self._client._create_pystac_catalog_fallback
TryPystacEntry(s) ==
    IF s.pystac_attempted \/ ~PYSTAC_AVAILABLE
    THEN [call |-> FALSE, s |-> s]
    ELSE [call |-> TRUE, s |-> SetAttempted(s, "pystac")]

TryPystacReturns_NotCached(s, all_items_dicts) ==
    TierResult([s EXCEPT
            !.fallback_metadata_cache =
                DictPut(@, "pystac_matched", Len(all_items_dicts)),
            !.all_items_cached = TRUE],
        STACItemCollection(all_items_dicts))

TryPystacReturns_InPlace(s, all_items_dicts) ==
    LET c == STACItemCollection(all_items_dicts)
    IN  TierResult([s EXCEPT
            !.fallback_metadata_cache =
                DictPut(@, "pystac_matched", Len(all_items_dicts)),
            !.items = all_items_dicts,
            !.all_items_cache = c,
            !.all_items_cached = TRUE], c)

\* pystac_search.get_all_items() returned all_items_dicts
TryPystacReturns(s, all_items_dicts) ==
    LET c == STACItemCollection(all_items_dicts)
    IN  TierResult([s EXCEPT
            !.fallback_metadata_cache =
                DictPut(@, "pystac_matched", Len(all_items_dicts)),
            !.all_items_cache = c,
            !.all_items_cached = TRUE], c)

\* if not pystac_catalog: return None
TryPystacNoCatalog(s) == TierResult(s, NoneCollection)

TryPystacRaises_Propagates(s) == TierRaised(s)

\* except Exception: return None
TryPystacRaises(s) == TierResult(s, NoneCollection)

AfterPystac_Retries(r) ==
    IF r.raised THEN Raised(r.s)
    ELSE IF Truthy(r.val) THEN Returned(r.s, r.val)
    ELSE Pending("tier2", r.s)

\* get_all_items after _try_pystac_fallback returned
AfterPystac(r) ==
    IF r.raised THEN Raised(r.s)
    ELSE IF Truthy(r.val) THEN Returned(r.s, r.val)
    ELSE StartChunking(r.s)

StartPystac_ChunkingFirst(s) == StartChunking(s)

\* get_all_items calls _try_pystac_fallback
StartPystac(s) ==
    LET e == TryPystacEntry(s)
    IN  IF e.call THEN Pending("tier2", e.s)
        ELSE AfterPystac(TierResult(e.s, NoneCollection))

-----------------------------------------------------------------------------
(* get_all_items and _ensure_fallback_data *)

GetAllItems_AtLeast(s) ==
    IF Truthy(s.all_items_cache)
    THEN Returned(s, s.all_items_cache)
    ELSE IF s.all_items_cached
    THEN LET c == STACItemCollection(s.items)
         IN  Returned([s EXCEPT !.all_items_cache = c], c)
    ELSE IF ~s.fallback_attempted /\ s.client # "None"
    THEN LET s1 == SetAttempted(s, "fallback")
         IN  IF Len(s1.items) >= TruncationThreshold
             THEN StartPystac(s1)
             ELSE Returned(s1, STACItemCollection(s1.items))
    ELSE Returned(s, STACItemCollection(s.items))

\* the tiers are entered without the fallback flag being set
GetAllItems_FlagNotSet(s) ==
    IF Truthy(s.all_items_cache)
    THEN Returned(s, s.all_items_cache)
    ELSE IF s.all_items_cached
    THEN LET c == STACItemCollection(s.items)
         IN  Returned([s EXCEPT !.all_items_cache = c], c)
    ELSE IF ~s.fallback_attempted /\ s.client # "None"
    THEN IF Len(s.items) = TruncationThreshold
         THEN StartPystac(s)
         ELSE Returned(s, STACItemCollection(s.items))
    ELSE Returned(s, STACItemCollection(s.items))

\* the branch for results fetched during the search is missing
GetAllItems_CachedFlagIgnored(s) ==
    IF Truthy(s.all_items_cache)
    THEN Returned(s, s.all_items_cache)
    ELSE IF ~s.fallback_attempted /\ s.client # "None"
    THEN LET s1 == SetAttempted(s, "fallback")
         IN  IF Len(s1.items) = TruncationThreshold
             THEN StartPystac(s1)
             ELSE Returned(s1, STACItemCollection(s1.items))
    ELSE Returned(s, STACItemCollection(s.items))

\* get_all_items, up to its return or its first collaborator call
GetAllItems(s) ==
    IF Truthy(s.all_items_cache)
    THEN Returned(s, s.all_items_cache)
    ELSE IF s.all_items_cached
    THEN LET c == STACItemCollection(s.items)
         IN  Returned([s EXCEPT !.all_items_cache = c], c)
    ELSE IF ~s.fallback_attempted /\ s.client # "None"
    THEN LET s1 == SetAttempted(s, "fallback")
         IN  IF Len(s1.items) = TruncationThreshold
             THEN StartPystac(s1)
             ELSE Returned(s1, STACItemCollection(s1.items))
    ELSE Returned(s, STACItemCollection(s.items))

\* _ensure_fallback_data, up to the return of its get_all_items() call
EnsureFallbackData(s) ==
    IF Truthy(s.all_items_cache)
    THEN Returned(s, s.all_items_cache)
    ELSE GetAllItems(s)

\* _ensure_fallback_data once get_all_items() returned or raised
EnsureFallbackDataEnd(o) ==
    IF o.raised
    THEN [ok |-> FALSE, s |-> o.s]
    ELSE [ok |-> TRUE, s |-> [o.s EXCEPT !.all_items_cache = o.val]]

-----------------------------------------------------------------------------
(* The accessors, from the point where get_all_items() returned or raised *)

Collection(item_list) == [Value("collection") EXCEPT !.items = item_list]

Count(n) == [Value("int") EXCEPT !.n = n]

\* {item.get('id') for item in ... if isinstance(item, dict) and item.get('id')}
ProductIds(item_list) == {item_list[i] : i \in DOMAIN item_list} \ {0}

\* get_all_items() / item_collection() hand the collection, or the exception, on
GetAllItemsEnd(o) ==
    [s |-> o.s,
     ret |-> IF o.raised THEN Value("raise") ELSE Collection(o.val.items)]

\* items(): the records the iterator yields
ItemsEnd(o) ==
    LET e == EnsureFallbackDataEnd(o)
    IN  [s |-> e.s,
         ret |-> [Value("iterator") EXCEPT
                    !.items = IF e.ok THEN e.s.all_items_cache.items
                              ELSE e.s.items]]

\* matched(), first part: the counts the fallback tiers recorded
MatchedFromMetadata(s) ==
    IF "pystac_matched" \in DOMAIN s.fallback_metadata_cache
    THEN [found |-> TRUE, n |-> s.fallback_metadata_cache["pystac_matched"]]
    ELSE IF "chunking_matched" \in DOMAIN s.fallback_metadata_cache
    THEN [found |-> TRUE, n |-> s.fallback_metadata_cache["chunking_matched"]]
    ELSE [found |-> FALSE, n |-> 0]

\* matched(), second part: the count of the fallback data
MatchedEnd(o) ==
    LET e == EnsureFallbackDataEnd(o)
        count == Len(e.s.all_items_cache.items)
    IN  IF e.ok
        THEN [s |-> [e.s EXCEPT !.fallback_metadata_cache =
                                    DictPut(@, "fallback_matched", count)],
              ret |-> Count(count)]
        ELSE [s |-> e.s, ret |-> Value("None")]

TotalItemsEnd(o) ==
    LET e == EnsureFallbackDataEnd(o)
        count == Len(e.s.all_items_cache.items)
    IN  IF e.ok
        THEN [s |-> [e.s EXCEPT !.fallback_metadata_cache =
                                    DictPut(@, "fallback_total", count)],
              ret |-> Count(count)]
        ELSE [s |-> e.s, ret |-> Count(e.s.results.total_returned)]

ListProductIdsEnd(o) ==
    LET e == EnsureFallbackDataEnd(o)
    IN  [s |-> e.s,
         ret |-> [Value("ids") EXCEPT
                    !.ids = IF e.ok THEN ProductIds(e.s.all_items_cache.items)
                            ELSE ProductIds(e.s.items)]]

LenEnd_DirectPage(o) ==
    LET e == EnsureFallbackDataEnd(o)
    IN  [s |-> e.s, ret |-> Count(Len(e.s.items))]

LenEnd(o) ==
    LET e == EnsureFallbackDataEnd(o)
    IN  [s |-> e.s,
         ret |-> Count(IF e.ok THEN Len(e.s.all_items_cache.items)
                     ELSE Len(e.s.items))]

ReprEnd(o) ==
    LET l == LenEnd(o)
    IN  [s |-> l.s,
         ret |-> [Value("repr") EXCEPT
                    !.n = l.ret.n,
                    !.text = IF l.s.all_items_cached THEN "with fallback"
                             ELSE "simple"]]

GetFallbackStatus(s) ==
    [Value("status") EXCEPT !.status =
        [fallback_attempted |-> s.fallback_attempted,
         pystac_attempted |-> s.pystac_attempted,
         chunking_attempted |-> s.chunking_attempted,
         all_items_cached |-> s.all_items_cached,
         cache_metadata |-> s.fallback_metadata_cache,
         original_items_count |-> Len(s.items),
         cached_items_count |-> IF Truthy(s.all_items_cache)
                                THEN Len(s.all_items_cache.items) ELSE 0,
         cached_items_none |-> ~Truthy(s.all_items_cache)]]

\* the rest of operation op once its get_all_items() call is over
End(op, o) ==
    CASE op \in {"get_all_items", "item_collection"} -> GetAllItemsEnd(o)
      [] op = "items" -> ItemsEnd(o)
      [] op = "matched" -> MatchedEnd(o)
      [] op = "total_items" -> TotalItemsEnd(o)
      [] op = "list_product_ids" -> ListProductIdsEnd(o)
      [] op = "__len__" -> LenEnd(o)
      [] op = "__repr__" -> ReprEnd(o)

-----------------------------------------------------------------------------
(* Steps *)

\* operation op returns r (or raises) and leaves the instance as s
Return(op, s, r) ==
    /\ Store(s)
    /\ pc' = "idle"
    /\ cur_op' = op
    /\ ret' = r
    /\ first_all' = IF /\ op \in {"get_all_items", "item_collection"}
                       /\ r.kind = "collection"
                       /\ first_all.isNone
                    THEN FirstCall(op, r.items)
                    ELSE first_all
    /\ UNCHANGED <<PYSTAC_AVAILABLE, pystac_calls, chunking_calls, pair_vars,
                   filter_vars, client_vars, datetime_vars>>

\* operation op calls a retrieval collaborator and waits for it
Call(op, tier, s) ==
    /\ Store(s)
    /\ pc' = tier
    /\ cur_op' = op
    /\ ret' = NoValue
    /\ pystac_calls' = pystac_calls + (IF tier = "tier2" THEN 1 ELSE 0)
    /\ chunking_calls' = chunking_calls + (IF tier = "tier3" THEN 1 ELSE 0)
    /\ UNCHANGED <<PYSTAC_AVAILABLE, first_all, pair_vars, filter_vars,
                   client_vars, datetime_vars>>

\* operation op goes on from where its get_all_items() call stands
Advance(op, o) ==
    IF o.pc = "idle"
    THEN LET e == End(op, o) IN Return(op, e.s, e.ret)
    ELSE Call(op, o.pc, o.s)

\* a caller starts operation op, which begins with the steps of o
Begin(op, o) ==
    /\ pc = "idle"
    /\ Advance(op, o)
    /\ UNCHANGED <<pystac_answer, chunking_answer>>

get_all_items == Begin("get_all_items", GetAllItems(Self))

item_collection == Begin("item_collection", GetAllItems(Self))

items == Begin("items", EnsureFallbackData(Self))

matched ==
    /\ pc = "idle"
    /\ LET m == MatchedFromMetadata(Self)
       IN  IF m.found THEN Return("matched", Self, Count(m.n))
           ELSE Advance("matched", EnsureFallbackData(Self))
    /\ UNCHANGED <<pystac_answer, chunking_answer>>

total_items == Begin("total_items", EnsureFallbackData(Self))

list_product_ids == Begin("list_product_ids", EnsureFallbackData(Self))

\* the status call fills the cache with the direct page as the other
\* accessors do
get_fallback_status_FillsCache ==
    /\ pc = "idle"
    /\ LET s == IF Truthy(Self.all_items_cache) THEN Self
                ELSE [Self EXCEPT
                        !.all_items_cache = STACItemCollection(Self.items)]
       IN  Return("get_fallback_status", s, GetFallbackStatus(s))
    /\ UNCHANGED <<pystac_answer, chunking_answer>>

get_fallback_status ==
    /\ pc = "idle"
    /\ Return("get_fallback_status", Self, GetFallbackStatus(Self))
    /\ UNCHANGED <<pystac_answer, chunking_answer>>

__len__ == Begin("__len__", EnsureFallbackData(Self))

__repr__ == Begin("__repr__", EnsureFallbackData(Self))

\* the paginated collaborator answers: _try_pystac_fallback goes on from it
PystacAnswers(answer, r) ==
    /\ pc = "tier2"
    /\ Advance(cur_op, AfterPystac(r))
    /\ pystac_answer' = answer
    /\ UNCHANGED chunking_answer

PystacReturns ==
    \E all_items_dicts \in PystacResults :
        PystacAnswers(Answer("returned", all_items_dicts),
                      TryPystacReturns(Self, all_items_dicts))

PystacNoCatalog ==
    PystacAnswers(Answer("no catalog", <<>>), TryPystacNoCatalog(Self))

PystacRaises == PystacAnswers(Answer("raised", <<>>), TryPystacRaises(Self))

\* the chunked collaborator answers: _try_chunking_fallback goes on from it
ChunkingAnswers(answer, r) ==
    /\ pc = "tier3"
    /\ Advance(cur_op, AfterChunking(r))
    /\ chunking_answer' = answer
    /\ UNCHANGED pystac_answer

ChunkingReturns ==
    \E chunked_items \in ChunkedResults :
        ChunkingAnswers(Answer("returned", chunked_items),
                        TryChunkingReturns(Self, chunked_items))

ChunkingRaises ==
    ChunkingAnswers(Answer("raised", <<>>), TryChunkingRaises(Self))

CollaboratorAnswers ==
    \/ PystacReturns
    \/ PystacNoCatalog
    \/ PystacRaises
    \/ ChunkingReturns
    \/ ChunkingRaises

-----------------------------------------------------------------------------
(* filter_by_geometry: the geometry normalizer and the spatial filter.     *)
(* A coordinate is a small natural number.  A polygon of the model is an   *)
(* axis-parallel rectangle, so that a polygon meets another footprint      *)
(* exactly when their envelopes do.                                        *)

Coordinates == 0..MaxCoord

\* a 2-number point
Points == Coordinates \X Coordinates

\* a value given as the geometry argument: which Python value it is
\* (kind), and what it holds: a type word, numbers, 2-number points
GeometryInput(kind, type, nums, pts) ==
    [kind |-> kind, type |-> type, nums |-> nums, pts |-> pts]

None == GeometryInput("None", "", <<>>, <<>>)

\* 123.456
Scalar(x) == GeometryInput("number", "", <<x>>, <<>>)

\* [west, south, east, north], [x, y], [], [x], [x, y, z]
NumberList(nums) == GeometryInput("list", "", nums, <<>>)

\* [(x1, y1), (x2, y2)], [(x1, y1), (x2, y2), (x3, y3), ...]
PointList(pts) == GeometryInput("list", "", <<>>, pts)

\* {"type": type, "coordinates": ...}
GeoJSON(type, pts) == GeometryInput("mapping", type, <<>>, pts)

\* "POINT (x y)", "POLYGON ((x1 y1, x2 y2, ...))", "INVALID WKT STRING":
\* the leading word and the numbers that follow it
WKT(word, nums) == GeometryInput("str", word, nums, <<>>)

\* an object with a geom_type and a coordinate accessor
GeometryObject(geom_type, pts) == GeometryInput("object", geom_type, <<>>, pts)

\* the canonical geometry, or the error the normalizer fails with.  box is
\* west, south, east, north: of a BoundingBox the box itself, of a Point
\* the point twice, of a Polygon the envelope of its ring
Geometry(type, box, ring) ==
    [ok |-> TRUE, type |-> type, box |-> box, ring |-> ring, message |-> ""]

GeometryError(message) ==
    [ok |-> FALSE, type |-> "", box |-> <<>>, ring |-> <<>>,
     message |-> message]

Min(S) == CHOOSE x \in S : \A y \in S : x <= y

Max(S) == CHOOSE x \in S : \A y \in S : x >= y

BoundingBox(west, south, east, north) ==
    Geometry("BoundingBox", <<west, south, east, north>>, <<>>)

Point(x, y) == Geometry("Point", <<x, y, x, y>>, <<>>)

\* the ring, closed by its first point when it is not closed
Closed(pts) == IF pts[Len(pts)] = pts[1] THEN pts ELSE Append(pts, pts[1])

Envelope(pts) ==
    LET xs == {pts[k][1] : k \in DOMAIN pts}
        ys == {pts[k][2] : k \in DOMAIN pts}
    IN  <<Min(xs), Min(ys), Max(xs), Max(ys)>>

Polygon(pts) == Geometry("Polygon", Envelope(pts), Closed(pts))

\* the two points are taken as given, first the west-south corner
FromDiagonal_AsGiven(p, q) == BoundingBox(p[1], p[2], q[1], q[2])

\* rule 3: two points are the diagonal corners of a box
FromDiagonal(p, q) ==
    BoundingBox(Min({p[1], q[1]}), Min({p[2], q[2]}),
                Max({p[1], q[1]}), Max({p[2], q[2]}))

\* rules 1 to 4: an ordered sequence of numbers or of points
NormalizeList(g) ==
    IF Len(g.pts) = 0
    THEN IF Len(g.nums) = 4
         THEN BoundingBox(g.nums[1], g.nums[2], g.nums[3], g.nums[4])
         ELSE IF Len(g.nums) = 2
         THEN Point(g.nums[1], g.nums[2])
         ELSE GeometryError("Invalid coordinates")
    ELSE IF Len(g.nums) # 0
    THEN GeometryError("Invalid coordinates")
    ELSE IF Len(g.pts) = 2
    THEN FromDiagonal(g.pts[1], g.pts[2])
    ELSE IF Len(g.pts) >= 3
    THEN Polygon(g.pts)
    ELSE GeometryError("Invalid coordinates")

\* rules 6 and 8: coordinates taken per geometry type
FromType(type, pts) ==
    IF type = "Point" /\ Len(pts) = 1
    THEN Point(pts[1][1], pts[1][2])
    ELSE IF type = "Polygon" /\ Len(pts) >= 3
    THEN Polygon(pts)
    ELSE IF type \in {"Point", "Polygon"}
    THEN GeometryError("Invalid coordinates")
    ELSE GeometryError("Unsupported GeoJSON type")

\* the numbers of a WKT text, two by two
Pairs(nums) ==
    [k \in 1..(Len(nums) \div 2) |-> <<nums[2 * k - 1], nums[2 * k]>>]

\* rule 7: a Well-Known-Text string
ParseWKT(g) ==
    IF g.type \notin {"POINT", "POLYGON"} \/ Len(g.nums) % 2 # 0
    THEN GeometryError("Invalid WKT")
    ELSE IF g.type = "POINT" /\ Len(g.nums) = 2
    THEN Point(g.nums[1], g.nums[2])
    ELSE IF g.type = "POLYGON" /\ Len(g.nums) >= 6
    THEN Polygon(Pairs(g.nums))
    ELSE GeometryError("Invalid WKT")

\* normalize(input): the first rule that matches decides
Normalize(g) ==
    IF g.kind = "list" THEN NormalizeList(g)
    ELSE IF g.kind = "number"
    THEN GeometryError("insufficient dimensionality")
    ELSE IF g.kind = "mapping" THEN FromType(g.type, g.pts)
    ELSE IF g.kind = "str" THEN ParseWKT(g)
    ELSE IF g.kind = "object" THEN FromType(g.type, g.pts)
    ELSE GeometryError("Unsupported geometry type")

\* an item record: its id, its 'geometry' (a GeoJSON mapping, or None when
\* the key is absent) and its 'bbox' (a list of numbers, or None)
Item(id, item_geometry, bbox) ==
    [id |-> id, geometry |-> item_geometry, bbox |-> bbox]

\* the footprint is the bbox whenever there is one
Footprint_BBoxFirst(item) ==
    IF item.bbox # None /\ Len(item.bbox.nums) = 4
    THEN BoundingBox(item.bbox.nums[1], item.bbox.nums[2],
                     item.bbox.nums[3], item.bbox.nums[4])
    ELSE IF item.geometry # None THEN Normalize(item.geometry)
    ELSE GeometryError("No footprint")

\* the spatial footprint of an item: its geometry; without one, its bbox
Footprint(item) ==
    IF item.geometry # None
    THEN Normalize(item.geometry)
    ELSE IF item.bbox # None
    THEN IF Len(item.bbox.nums) = 4
         THEN BoundingBox(item.bbox.nums[1], item.bbox.nums[2],
                          item.bbox.nums[3], item.bbox.nums[4])
         ELSE GeometryError("Invalid bbox")
    ELSE GeometryError("No footprint")

\* box against box: overlap with strict inequalities on the four sides
Overlaps(a, b) == a[1] < b[3] /\ b[1] < a[3] /\ a[2] < b[4] /\ b[2] < a[4]

\* a point on a boundary and touching edges count
Touches(a, b) ==
    a[1] <= b[3] /\ b[1] <= a[3] /\ a[2] <= b[4] /\ b[2] <= a[4]

Intersects(q, f) ==
    IF q.type = "BoundingBox" /\ f.type = "BoundingBox"
    THEN Overlaps(q.box, f.box)
    ELSE Touches(q.box, f.box)

Keeps(q, item) == LET f == Footprint(item) IN f.ok /\ Intersects(q, f)

\* what the call gave back: a new collection, or the error raised
FilterReturned(q, item_list, skipped) ==
    [called |-> TRUE, raised |-> FALSE, message |-> "", query |-> q,
     items |-> item_list, skipped |-> skipped]

FilterRaised(q) ==
    [called |-> TRUE, raised |-> TRUE, message |-> q.message, query |-> q,
     items |-> <<>>, skipped |-> 0]

NotFiltered ==
    [called |-> FALSE, raised |-> FALSE, message |-> "",
     query |-> GeometryError(""), items |-> <<>>, skipped |-> 0]

RECURSIVE Reverse(_)
Reverse(seq) ==
    IF seq = <<>> THEN <<>> ELSE Append(Reverse(Tail(seq)), Head(seq))

\* the survivors come out last first
Survivors_Reordered(item_list, q) ==
    Reverse(SelectSeq(item_list, LAMBDA item : Keeps(q, item)))

\* the items whose footprint meets the query geometry, in their order
Survivors(item_list, q) == SelectSeq(item_list, LAMBDA item : Keeps(q, item))

Skipped(item_list) ==
    Cardinality({k \in DOMAIN item_list : ~Footprint(item_list[k]).ok})

\* a geometry that cannot be read gives the empty collection
FilterByGeometry_Swallows(item_list, g) ==
    LET q == Normalize(g)
    IN  IF q.ok
        THEN FilterReturned(q, Survivors(item_list, q), Skipped(item_list))
        ELSE FilterReturned(q, <<>>, 0)

\* filter_by_geometry(items, geometry)
FilterByGeometry(item_list, g) ==
    LET q == Normalize(g)
    IN  IF q.ok
        THEN FilterReturned(q, Survivors(item_list, q), Skipped(item_list))
        ELSE FilterRaised(q)

\* filter_by_geometry is not in use
NoFilter ==
    /\ stac_items = <<>>
    /\ geometry = None
    /\ filtered_items = NotFiltered

-----------------------------------------------------------------------------
(* EarthSearchCollections._format_datetime_rfc3339 (earthsearch/client.py). *)
(* A string is the sequence of its pieces: a date, the letter "T", a time   *)
(* of day, the letter "Z", the separator "/".                               *)

\* 'piece' in str
Contains(str, piece) == \E i \in DOMAIN str : str[i] = piece

\* str.endswith(piece)
EndsWith(str, piece) == str # <<>> /\ str[Len(str)] = piece

\* where the separators of str are
Separators(str) == {i \in DOMAIN str : str[i] = "/"}

\* a datetime value: None, a string, a datetime object (date and time)
DatetimeNone == [kind |-> "None", str |-> <<>>]

DatetimeStr(str) == [kind |-> "str", str |-> str]

DatetimeObject(date, time) == [kind |-> "datetime", str |-> <<date, time>>]

\* start_date, end_date = datetime_str.split('/') found no two parts
DatetimeRaised == [kind |-> "raised", str |-> <<>>]

NotFormatted == [kind |-> "not called", str |-> <<>>]

\* lines 73-76: the start of a range
StartRfc3339(start_date) ==
    IF ~Contains(start_date, "T")
    THEN start_date \o <<"T", "00:00:00", "Z">>
    ELSE IF EndsWith(start_date, "Z") THEN start_date
    ELSE start_date \o <<"Z">>

\* lines 78-81: the end of a range
EndRfc3339(end_date) ==
    IF ~Contains(end_date, "T")
    THEN end_date \o <<"T", "23:59:59", "Z">>
    ELSE IF EndsWith(end_date, "Z") THEN end_date
    ELSE end_date \o <<"Z">>

\* lines 70-83: a string with a separator
FormatRange(datetime_str) ==
    IF Cardinality(Separators(datetime_str)) # 1
    THEN DatetimeRaised
    ELSE LET i == CHOOSE i \in Separators(datetime_str) : TRUE
             start_date == SubSeq(datetime_str, 1, i - 1)
             end_date == SubSeq(datetime_str, i + 1, Len(datetime_str))
         IN  DatetimeStr(StartRfc3339(start_date) \o <<"/">>
                         \o EndRfc3339(end_date))

\* _format_datetime_rfc3339(datetime_input)
FormatDatetimeRfc3339(input) ==
    IF input.kind = "None" \/ (input.kind = "str" /\ input.str = <<>>)
    THEN DatetimeNone
    ELSE IF input.kind = "datetime"
    THEN DatetimeStr(<<input.str[1], "T", input.str[2], "Z">>)
    ELSE LET datetime_str == input.str
         IN  IF Contains(datetime_str, "T") /\ EndsWith(datetime_str, "Z")
             THEN DatetimeStr(datetime_str)
             ELSE IF Contains(datetime_str, "/")
             THEN FormatRange(datetime_str)
             ELSE IF ~Contains(datetime_str, "T")
             THEN DatetimeStr(datetime_str \o <<"T", "00:00:00", "Z">>)
             ELSE IF ~EndsWith(datetime_str, "Z")
             THEN DatetimeStr(datetime_str \o <<"Z">>)
             ELSE DatetimeStr(datetime_str)

\* _format_datetime_rfc3339 is not in use
NoDatetime ==
    /\ datetime_input = DatetimeNone
    /\ formatted_datetime = NotFormatted
    /\ reformatted_datetime = NotFormatted

-----------------------------------------------------------------------------
(* EarthSearchCollections.search (earthsearch/client.py) *)

\* an optional list argument: None, or a list
NoList == [isNone |-> TRUE, list |-> <<>>]

List(list) == [isNone |-> FALSE, list |-> list]

\* `if collections:`, `if bbox:`: None and the empty list are false
ListGiven(l) == ~l.isNone /\ Len(l.list) > 0

\* the datetime argument: None, a (start, end) tuple, a list, a string
DatetimeArg(kind, parts) == [kind |-> kind, parts |-> parts]

\* "/".join(parts)
RECURSIVE Join(_)
Join(parts) ==
    IF Len(parts) = 0 THEN <<>>
    ELSE IF Len(parts) = 1 THEN parts[1]
    ELSE parts[1] \o <<"/">> \o Join(Tail(parts))

\* lines 120-126: the datetime argument as one string
DatetimeRange(arg) ==
    IF arg.kind \in {"tuple", "list"} THEN Join(arg.parts) ELSE arg.parts[1]

\* `if datetime:`
DatetimeGiven(arg) ==
    /\ arg.kind # "None"
    /\ arg.parts # <<>>
    /\ arg.kind = "str" => arg.parts[1] # <<>>

\* the search payload; a key that is not set has the value of NoPayload
NoPayload ==
    [collections |-> <<>>, intersects |-> FALSE, bbox |-> <<>>,
     datetime |-> DatetimeNone, query |-> FALSE, limit |-> 0]

\* the arguments of a search() call; max_items = 0 stands for None
SearchArgs(names, intersects, bbox, when, query, limit, max_items) ==
    [collections |-> names, intersects |-> intersects, bbox |-> bbox,
     datetime |-> when, query |-> query, limit |-> limit,
     max_items |-> max_items]

NoArgs ==
    SearchArgs(NoList, FALSE, NoList, DatetimeArg("None", <<>>), FALSE, 0, 0)

\* what search() came to
SearchRaised(message) == [kind |-> "raised", message |-> message]

SearchReturned(response) == [kind |-> "returned", message |-> response]

NotSearched == [kind |-> "none", message |-> ""]

\* [col for col in collections if col not in self.collections]
InvalidCollections(known, names) ==
    SelectSeq(names, LAMBDA col : col \notin known)

\* a bbox of any length is sent on
SearchEntry_AnyBBox(known, args) ==
    IF /\ ListGiven(args.collections)
       /\ InvalidCollections(known, args.collections.list) # <<>>
    THEN [raised |-> TRUE, message |-> "Invalid collections",
          payload |-> NoPayload]
    ELSE IF /\ DatetimeGiven(args.datetime)
            /\ FormatDatetimeRfc3339(
                   DatetimeStr(DatetimeRange(args.datetime))).kind = "raised"
    THEN [raised |-> TRUE, message |-> "too many values to unpack",
          payload |-> NoPayload]
    ELSE [raised |-> FALSE, message |-> "",
          payload |->
            [collections |-> IF ListGiven(args.collections)
                             THEN args.collections.list ELSE <<>>,
             intersects |-> args.intersects,
             bbox |-> IF ListGiven(args.bbox) THEN args.bbox.list ELSE <<>>,
             datetime |-> IF DatetimeGiven(args.datetime)
                          THEN FormatDatetimeRfc3339(
                                   DatetimeStr(DatetimeRange(args.datetime)))
                          ELSE DatetimeNone,
             query |-> args.query,
             limit |-> IF args.limit < MaxPageSize THEN args.limit
                       ELSE MaxPageSize]]

\* search(), lines 103-134: the checks and the payload, up to the request
SearchEntry(known, args) ==
    IF /\ ListGiven(args.collections)
       /\ InvalidCollections(known, args.collections.list) # <<>>
    THEN [raised |-> TRUE, message |-> "Invalid collections",
          payload |-> NoPayload]
    ELSE IF ListGiven(args.bbox) /\ Len(args.bbox.list) # 4
    THEN [raised |-> TRUE,
          message |-> "bbox must be [west, south, east, north]",
          payload |-> NoPayload]
    ELSE IF /\ DatetimeGiven(args.datetime)
            /\ FormatDatetimeRfc3339(
                   DatetimeStr(DatetimeRange(args.datetime))).kind = "raised"
    THEN [raised |-> TRUE, message |-> "too many values to unpack",
          payload |-> NoPayload]
    ELSE [raised |-> FALSE, message |-> "",
          payload |->
            [collections |-> IF ListGiven(args.collections)
                             THEN args.collections.list ELSE <<>>,
             intersects |-> args.intersects,
             bbox |-> IF ListGiven(args.bbox) THEN args.bbox.list ELSE <<>>,
             datetime |-> IF DatetimeGiven(args.datetime)
                          THEN FormatDatetimeRfc3339(
                                   DatetimeStr(DatetimeRange(args.datetime)))
                          ELSE DatetimeNone,
             query |-> args.query,
             limit |-> IF args.limit < MaxPageSize THEN args.limit
                       ELSE MaxPageSize]]

\* lines 146-154: the items of the response data, cut to max_items
ResponseItems(data, max_items) ==
    LET found == IF data.kind \in {"features", "list"} THEN data.items
                 ELSE <<>>
    IN  IF max_items # 0 /\ Len(found) > max_items
        THEN SubSeq(found, 1, max_items)
        ELSE found

\* the dict STACSearch is built from (lines 156-160, 165); a key the dict
\* lacks has the value "" (error) or NoPayload (search_params)
ClientSearchResults(item_list, payload, error) ==
    [features |-> item_list, total_returned |-> Len(item_list),
     all_items_cached |-> FALSE, search_params |-> payload, error |-> error]

\* the search object is given the client, as the other providers do
SearchObjectOf_WithClient(search_results) ==
    STACSearch(search_results, "chunking", EmptyDict)

\* STACSearch(search_results, provider="earthsearch")
SearchObjectOf(search_results) == STACSearch(search_results, "None", EmptyDict)

\* the client is not in use
NoClient ==
    /\ collections = {}
    /\ search_pc = "ready"
    /\ search_args = NoArgs
    /\ search_payload = NoPayload
    /\ requests_sent = 0
    /\ search_outcome = NotSearched

-----------------------------------------------------------------------------
(* Specification *)

Clients == {"None", "plain", "chunking"}

\* the query parameters: 'limit' is the page size the search was issued with
OriginalParams ==
    {[limit |-> n] :
        n \in {TruncationThreshold - 1, TruncationThreshold, MaxLimit}}

Init ==
    /\ PYSTAC_AVAILABLE \in BOOLEAN
    /\ \E item_list \in DirectPages, cached \in BOOLEAN,
          client_instance \in Clients, params \in OriginalParams :
          LET s == STACSearch(SearchResults(item_list, cached),
                              client_instance, params)
          IN  /\ _results = s.results
              /\ _items = s.items
              /\ _client = s.client
              /\ _original_params = s.original_params
              /\ _fallback_attempted = s.fallback_attempted
              /\ _pystac_attempted = s.pystac_attempted
              /\ _chunking_attempted = s.chunking_attempted
              /\ _all_items_cached = s.all_items_cached
              /\ _all_items_cache = s.all_items_cache
              /\ _fallback_metadata_cache = s.fallback_metadata_cache
    /\ pc = "idle"
    /\ cur_op = "__init__"
    /\ ret = NoValue
    /\ pystac_calls = 0
    /\ chunking_calls = 0
    /\ pystac_answer = NotCalled
    /\ chunking_answer = NotCalled
    /\ first_all = NoFirstCall
    /\ searches = <<>>
    /\ dicts = <<>>
    /\ acting = 0
    /\ NoFilter
    /\ NoClient
    /\ NoDatetime

Next ==
    \/ get_all_items
    \/ item_collection
    \/ items
    \/ matched
    \/ total_items
    \/ list_product_ids
    \/ get_fallback_status
    \/ __len__
    \/ __repr__
    \/ PystacReturns
    \/ PystacNoCatalog
    \/ PystacRaises
    \/ ChunkingReturns
    \/ ChunkingRaises

Spec == Init /\ [][Next]_vars

\* a collaborator call returns or raises
LiveSpec == Spec /\ WF_vars(CollaboratorAnswers)

-----------------------------------------------------------------------------
(* Properties *)

\* a get_all_items() or item_collection() call has just returned
AllItemsReturned ==
    pc = "idle" /\ cur_op \in {"get_all_items", "item_collection"}

\* the search was set to escalate: a client, and exactly 100 direct-page items
EscalationTriggered ==
    _fallback_attempted /\ Len(_items) = TruncationThreshold

\* C1: with a client and exactly 100 direct-page items, when the paginated
\* collaborator returned N items, get_all_items() returns exactly those N items.
C1_PaginatedResultServed ==
    (/\ AllItemsReturned
     /\ _client # "None"
     /\ Len(_items) = TruncationThreshold
     /\ pystac_answer.kind = "returned")
    => (ret.kind = "collection" /\ ret.items = pystac_answer.items)

\* C2: a direct page of other than 100 items never has a collaborator invoked,
\* whatever operations run, and get_all_items() returns the direct-page items.
C2_NoEscalationOffThreshold ==
    Len(_items) # TruncationThreshold
    => /\ pc = "idle"
       /\ pystac_calls = 0
       /\ chunking_calls = 0
       /\ pystac_answer = NotCalled
       /\ chunking_answer = NotCalled
       /\ AllItemsReturned => ret = Collection(_items)

C2_Witness ==
    /\ Len(_items) = TruncationThreshold - 1
    /\ _client = "chunking"
    /\ PYSTAC_AVAILABLE
    /\ ~_all_items_cached
    /\ _fallback_attempted
    /\ "fallback_total" \in DOMAIN _fallback_metadata_cache
    /\ AllItemsReturned
    /\ ret = Collection(_items)

\* C3: get_all_items() never raises because of a tier: whatever a collaborator
\* does (raises, returns nothing, is missing), a collection is returned.
C3_TierFailuresAbsorbed ==
    AllItemsReturned => ret.kind = "collection"

C3_Witness ==
    /\ AllItemsReturned
    /\ cur_op = "get_all_items"
    /\ pystac_answer.kind = "raised"
    /\ chunking_answer.kind = "raised"
    /\ ret.kind = "collection"

\* C4: escalation was triggered and neither tier escalated successfully (each
\* failed or was unavailable): get_all_items() returns exactly the direct-page
\* items, on the escalating call and on every later one.
C4_DirectPageWhenNothingEscalated ==
    (/\ AllItemsReturned
     /\ EscalationTriggered
     /\ pystac_answer.kind \in {"not called", "no catalog", "raised"}
     /\ chunking_answer.kind \in {"not called", "raised"})
    => ret = Collection(_items)

C4_Witness ==
    /\ AllItemsReturned
    /\ EscalationTriggered
    /\ pystac_answer.kind = "no catalog"
    /\ chunking_answer.kind = "raised"
    /\ first_all.by = "get_all_items"
    /\ cur_op = "item_collection"
    /\ ret = Collection(_items)

\* C5: over any sequence of operations the paginated collaborator is invoked at
\* most once and the chunked collaborator at most once, succeed or fail.
C5_TiersAtMostOnce ==
    pystac_calls <= 1 /\ chunking_calls <= 1

C5_Witness ==
    /\ pc = "idle"
    /\ pystac_calls = 1
    /\ chunking_calls = 1
    /\ pystac_answer.kind = "raised"
    /\ chunking_answer.kind = "raised"
    /\ first_all.by = "item_collection"
    /\ "fallback_total" \in DOMAIN _fallback_metadata_cache
    /\ cur_op = "__repr__"

\* C6: every get_all_items() / item_collection() call returns the item sequence
\* the first such call returned, whatever accessors ran in between.
C6_Memoized ==
    (AllItemsReturned /\ ret.kind = "collection")
    => (~first_all.isNone /\ ret.items = first_all.items)

C6_Witness ==
    /\ AllItemsReturned
    /\ first_all.by = "get_all_items"
    /\ cur_op = "item_collection"
    /\ pystac_answer.kind = "returned"
    /\ Len(pystac_answer.items) = MaxFetched
    /\ "fallback_total" \in DOMAIN _fallback_metadata_cache
    /\ ret.items = pystac_answer.items

\* C7: at most one tier writes the cached full result and its match count:
\* once a tier stored its item set, also an empty one, no later tier is
\* attempted and the cache is not overwritten.
C7_OneTierWritesCache ==
    /\ ~({"pystac_matched", "chunking_matched"}
            \subseteq DOMAIN _fallback_metadata_cache)
    /\ pystac_answer.kind = "returned" => chunking_calls = 0

\* C8: len(search), total_items() and the number of items items() yields equal
\* the number of items get_all_items() returns, and list_product_ids() is the
\* set of non-empty identifiers of those items.
C8_AccessorsAgree ==
    (pc = "idle" /\ cur_op \in {"__len__", "total_items", "items", "list_product_ids"})
    => LET o == GetAllItems(Self)
       IN  /\ o.pc = "idle"
           /\ ~o.raised
           /\ cur_op \in {"__len__", "total_items"}
                => (ret.kind = "int" /\ ret.n = Len(o.val.items))
           /\ cur_op = "items" => Len(ret.items) = Len(o.val.items)
           /\ cur_op = "list_product_ids" => ret.ids = ProductIds(o.val.items)

C8_Witness ==
    /\ pc = "idle"
    /\ cur_op = "__len__"
    /\ pystac_answer.kind = "raised"
    /\ chunking_answer.kind = "returned"
    /\ Len(chunking_answer.items) = MaxFetched
    /\ "fallback_total" \in DOMAIN _fallback_metadata_cache
    /\ ret.n = MaxFetched

\* C9: a call that escalates attempts tier 2 at most once, then tier 3 at most
\* once, and then returns: no tier is re-entered and, every collaborator call
\* returning or raising, the operation always gets back to its caller.
C9_EscalationTerminates ==
    /\ [][pc = "tier2" => pc' \in {"tier3", "idle"}]_vars
    /\ [][pc = "tier3" => pc' = "idle"]_vars
    /\ (pc # "idle") ~> (pc = "idle" /\ ret.kind # "nothing")

C9_Witness ==
    /\ pc = "idle"
    /\ cur_op = "get_all_items"
    /\ pystac_calls = 1
    /\ chunking_calls = 1
    /\ pystac_answer.kind = "returned"
    /\ pystac_answer.items = <<>>
    /\ chunking_answer.kind = "raised"
    /\ ret.kind = "collection"

\* C10: no operation, a successful escalation included, changes the direct-page
\* items, the raw search results or the original query parameters.
C10_DirectPageUntouched ==
    [][/\ _items' = _items
       /\ _results' = _results
       /\ _original_params' = _original_params]_vars

C10_Witness ==
    /\ pc = "idle"
    /\ pystac_answer.kind = "returned"
    /\ Len(pystac_answer.items) = MaxFetched
    /\ _all_items_cache = STACItemCollection(pystac_answer.items)
    /\ Len(_items) = TruncationThreshold
    /\ _results.features = _items

\* C12: with the paginated-client dependency absent, get_all_items() on a
\* 100-item search with a client never invokes the paginated collaborator,
\* still attempts the chunked tier, and returns a collection.
C12_AbsentDependencyTolerated ==
    ~PYSTAC_AVAILABLE
    => /\ pystac_calls = 0
       /\ pystac_answer = NotCalled
       /\ (/\ AllItemsReturned
           /\ _client # "None"
           /\ Len(_items) = TruncationThreshold
           /\ ~_results.all_items_cached)
          => /\ ret.kind = "collection"
             /\ _chunking_attempted
             /\ _client = "chunking" => chunking_calls = 1

C12_Witness ==
    /\ ~PYSTAC_AVAILABLE
    /\ AllItemsReturned
    /\ cur_op = "get_all_items"
    /\ first_all.by = "get_all_items"
    /\ _client = "chunking"
    /\ Len(_items) = TruncationThreshold
    /\ chunking_calls = 1
    /\ chunking_answer.kind = "returned"
    /\ ret = Collection(chunking_answer.items)
    /\ Len(ret.items) = MaxFetched

\* a retrieval tier was entered for this instance
TierEntered == _pystac_attempted \/ _chunking_attempted

\* C13: escalation is triggered exactly when the number of direct-page items
\* equals the page size the search was issued with (its limit).
C13_EscalatesAtPageSize ==
    /\ TierEntered => Len(_items) = _original_params.limit
    /\ (/\ AllItemsReturned
        /\ _client # "None"
        /\ ~_results.all_items_cached
        /\ Len(_items) = _original_params.limit)
       => TierEntered

\* C19: the chunked collaborator is never invoked before the paginated tier was
\* tried; with both available, its invocation comes after the single
\* invocation of the paginated collaborator has been answered.
C19_PaginatedBeforeChunked ==
    (_chunking_attempted \/ chunking_calls > 0)
    => /\ _fallback_attempted
       /\ PYSTAC_AVAILABLE
          => /\ _pystac_attempted
             /\ pystac_calls = 1
             /\ pystac_answer # NotCalled

C19_Witness ==
    /\ pc = "tier3"
    /\ PYSTAC_AVAILABLE
    /\ _client = "chunking"
    /\ chunking_calls = 1
    /\ pystac_calls = 1
    /\ pystac_answer.kind = "raised"
    /\ chunking_answer = NotCalled

\* C20: matched() returns the number of items of the collection that
\* get_all_items() returns for the instance.
C20_MatchedIsServedCount ==
    (pc = "idle" /\ cur_op = "matched")
    => LET o == GetAllItems(Self)
       IN  /\ o.pc = "idle"
           /\ ret.kind = "int"
           /\ ret.n = Len(o.val.items)

\* C21: a tier flag implies the fallback flag, the fallback flag implies a
\* client, a tier flag is set only with exactly 100 direct-page items, and
\* no flag that is set is ever reset.
C21_FlagsConsistent ==
    /\ [](/\ TierEntered => _fallback_attempted
          /\ _fallback_attempted => _client # "None"
          /\ TierEntered => Len(_items) = TruncationThreshold)
    /\ [][/\ _fallback_attempted => _fallback_attempted'
          /\ _pystac_attempted => _pystac_attempted'
          /\ _chunking_attempted => _chunking_attempted']_vars

C21_Witness ==
    /\ pc = "idle"
    /\ _fallback_attempted
    /\ _pystac_attempted
    /\ _chunking_attempted
    /\ _client = "plain"
    /\ Len(_items) = TruncationThreshold
    /\ cur_op = "get_fallback_status"

\* C22: when the search results came with all_items_cached = true, no
\* operation invokes a retrieval collaborator or sets an attempted flag, and
\* get_all_items() returns exactly the items supplied, 100 or none included.
C22_SuppliedItemsServed ==
    _results.all_items_cached =>
        /\ pc = "idle"
        /\ pystac_calls = 0
        /\ chunking_calls = 0
        /\ ~_fallback_attempted
        /\ ~TierEntered
        /\ AllItemsReturned => ret = Collection(_results.features)

C22_Witness ==
    /\ _results.all_items_cached
    /\ AllItemsReturned
    /\ _client = "chunking"
    /\ PYSTAC_AVAILABLE
    /\ _results.features = <<>>
    /\ ret = Collection(<<>>)
    /\ first_all.by = "item_collection"

\* C24: get_fallback_status() invokes no collaborator, starts no escalation,
\* leaves flags, cache and metadata as they are, and reports the flags and
\* counts of the state it is called in (original_items_count is the number of
\* direct-page items).
C24_StatusIsPureObserver ==
    [][(pc = "idle" /\ cur_op' = "get_fallback_status") =>
          /\ pc' = "idle"
          /\ pystac_calls' = pystac_calls
          /\ chunking_calls' = chunking_calls
          /\ _fallback_attempted' = _fallback_attempted
          /\ _pystac_attempted' = _pystac_attempted
          /\ _chunking_attempted' = _chunking_attempted
          /\ _all_items_cached' = _all_items_cached
          /\ _all_items_cache' = _all_items_cache
          /\ _fallback_metadata_cache' = _fallback_metadata_cache
          /\ ret'.kind = "status"
          /\ ret'.status.fallback_attempted = _fallback_attempted
          /\ ret'.status.pystac_attempted = _pystac_attempted
          /\ ret'.status.chunking_attempted = _chunking_attempted
          /\ ret'.status.all_items_cached = _all_items_cached
          /\ ret'.status.cache_metadata = _fallback_metadata_cache
          /\ ret'.status.original_items_count = Len(_items)
          /\ ~ret'.status.cached_items_none =>
                 /\ ~_all_items_cache.isNone
                 /\ ret'.status.cached_items_count =
                        Len(_all_items_cache.items)]_vars

C24_Witness ==
    /\ pc = "idle"
    /\ cur_op = "get_fallback_status"
    /\ _client = "chunking"
    /\ PYSTAC_AVAILABLE
    /\ Len(_items) = TruncationThreshold
    /\ ~_results.all_items_cached
    /\ ~_fallback_attempted
    /\ _all_items_cache.isNone
    /\ ret.status.original_items_count = TruncationThreshold
    /\ ret.status.cached_items_none

-----------------------------------------------------------------------------
(* Several search objects made with one client *)

SearchIds == 1..2

Operations ==
    {"get_all_items", "item_collection", "items", "matched", "total_items",
     "list_product_ids", "get_fallback_status", "__len__", "__repr__"}

NewDict_Shared(i) == 1

\* self._fallback_metadata_cache = {}: the dict object made for search object i
NewDict(i) == i

\* search object i as __init__ leaves it; its dict is named by reference
SearchObject(i, search_results, client_instance, original_search_params) ==
    [STACSearch(search_results, client_instance, original_search_params)
        EXCEPT !.fallback_metadata_cache = NewDict(i)]

\* the fields of search object i, its dict read through the reference
Load(i) ==
    [searches[i] EXCEPT !.fallback_metadata_cache = dicts[@]]

\* the fields of search object i after an operation left them as s
StoreObject(i, s) ==
    LET ref == searches[i].fallback_metadata_cache
    IN  /\ searches' = [searches EXCEPT
                           ![i] = [s EXCEPT !.fallback_metadata_cache = ref]]
        /\ dicts' = [dicts EXCEPT ![ref] = s.fallback_metadata_cache]

PystacAnswerSet ==
    {Answer("returned", <<>>), Answer("returned", Records(MaxShort, 1000, FALSE)),
     Answer("no catalog", <<>>), Answer("raised", <<>>)}

ChunkingAnswerSet ==
    {Answer("returned", <<>>), Answer("returned", Records(MaxShort, 2000, FALSE)),
     Answer("raised", <<>>)}

\* _try_pystac_fallback from the collaborator's answer on
AnswerPystac(s, a) ==
    CASE a.kind = "returned" -> TryPystacReturns(s, a.items)
      [] a.kind = "no catalog" -> TryPystacNoCatalog(s)
      [] a.kind = "raised" -> TryPystacRaises(s)

\* _try_chunking_fallback from the collaborator's answer on
AnswerChunking(s, a) ==
    CASE a.kind = "returned" -> TryChunkingReturns(s, a.items)
      [] a.kind = "raised" -> TryChunkingRaises(s)

\* get_all_items() run to its return, the collaborators answering a2 and a3
RunToReturn(o, a2, a3) ==
    LET o2 == IF o.pc = "tier2" THEN AfterPystac(AnswerPystac(o.s, a2)) ELSE o
    IN  IF o2.pc = "tier3" THEN AfterChunking(AnswerChunking(o2.s, a3)) ELSE o2

\* operation op up to its return or its first collaborator call
Start(op, s) ==
    IF op = "get_fallback_status" THEN Returned(s, NoneCollection)
    ELSE IF op = "matched" /\ MatchedFromMetadata(s).found
    THEN Returned(s, NoneCollection)
    ELSE IF op \in {"get_all_items", "item_collection"} THEN GetAllItems(s)
    ELSE EnsureFallbackData(s)

\* the fields of a search object after operation op, started as o, returned
Finish(op, s, o) ==
    IF op = "get_fallback_status" THEN s
    ELSE IF op = "matched" /\ MatchedFromMetadata(s).found THEN s
    ELSE End(op, o).s

\* the one-instance variables are not in use
NoSearch ==
    /\ _results = SearchResults(<<>>, FALSE)
    /\ _items = <<>>
    /\ _client = "None"
    /\ _original_params = [limit |-> TruncationThreshold]
    /\ _fallback_attempted = FALSE
    /\ _pystac_attempted = FALSE
    /\ _chunking_attempted = FALSE
    /\ _all_items_cached = FALSE
    /\ _all_items_cache = NoneCollection
    /\ _fallback_metadata_cache = EmptyDict
    /\ pc = "idle"
    /\ cur_op = "__init__"
    /\ ret = NoValue
    /\ pystac_calls = 0
    /\ chunking_calls = 0
    /\ pystac_answer = NotCalled
    /\ chunking_answer = NotCalled
    /\ first_all = NoFirstCall

PairPages == {Records(TruncationThreshold, 0, FALSE), Records(MaxShort, 0, FALSE)}

PairInit ==
    /\ NoSearch
    /\ PYSTAC_AVAILABLE \in BOOLEAN
    /\ \E client_instance \in {"plain", "chunking"},
          pages \in [SearchIds -> PairPages] :
          searches = [i \in SearchIds |->
                        SearchObject(i, SearchResults(pages[i], FALSE),
                                     client_instance,
                                     [limit |-> TruncationThreshold])]
    /\ dicts = [ref \in {NewDict(i) : i \in SearchIds} |-> EmptyDict]
    /\ acting = 0
    /\ NoFilter
    /\ NoClient
    /\ NoDatetime

\* a caller runs operation op on search object i
CallOn(i, op) ==
    /\ LET s == Load(i)
           o == Start(op, s)
       IN  IF o.pc = "idle"
           THEN StoreObject(i, Finish(op, s, o))
           ELSE \E a2 \in PystacAnswerSet, a3 \in ChunkingAnswerSet :
                   StoreObject(i, Finish(op, s, RunToReturn(o, a2, a3)))
    /\ acting' = i
    /\ UNCHANGED <<search_vars, PYSTAC_AVAILABLE, filter_vars, client_vars,
                   datetime_vars>>

PairNext == \E i \in SearchIds, op \in Operations : CallOn(i, op)

PairSpec == PairInit /\ [][PairNext]_vars

\* what an operation may change of search object j
FallbackState(j) ==
    LET s == Load(j)
    IN  [fallback_attempted |-> s.fallback_attempted,
         pystac_attempted |-> s.pystac_attempted,
         chunking_attempted |-> s.chunking_attempted,
         all_items_cached |-> s.all_items_cached,
         all_items_cache |-> s.all_items_cache,
         fallback_metadata_cache |-> s.fallback_metadata_cache]

\* C11: an operation on one search instance leaves the attempted flags, the
\* cached full result and the fallback metadata of every other instance
\* unchanged, also when the instances share the client.
C11_FallbackStatePerInstance ==
    [][\A j \in SearchIds : j # acting' => FallbackState(j)' = FallbackState(j)]_vars

C11_Witness ==
    /\ acting = 2
    /\ searches[1].client = searches[2].client
    /\ Len(searches[1].items) = TruncationThreshold
    /\ Len(searches[2].items) = TruncationThreshold
    /\ "pystac_matched" \in DOMAIN Load(1).fallback_metadata_cache
    /\ "pystac_matched" \notin DOMAIN Load(2).fallback_metadata_cache
    /\ "chunking_matched" \in DOMAIN Load(2).fallback_metadata_cache
    /\ Load(1).all_items_cache # Load(2).all_items_cache

-----------------------------------------------------------------------------
(* One call of filter_by_geometry(items, geometry) *)

\* the ring of the rectangle west..east by south..north, closed
Ring(west, south, east, north) ==
    <<<<west, south>>, <<east, south>>, <<east, north>>, <<west, north>>,
      <<west, south>>>>

Rings ==
    {Ring(west, south, east, north) :
        <<west, south, east, north>> \in
            {b \in Coordinates \X Coordinates \X Coordinates \X Coordinates :
                b[1] < b[3] /\ b[2] < b[4]}}

\* the same rings without their closing point
OpenRings == {SubSeq(ring, 1, Len(ring) - 1) : ring \in Rings}

\* the numbers of a ring as a WKT text lists them
Flat(pts) ==
    [k \in 1..(2 * Len(pts)) |->
        pts[(k + 1) \div 2][IF k % 2 = 1 THEN 1 ELSE 2]]

NumberLists == UNION {[1..n -> Coordinates] : n \in 0..4}

\* the values the geometry argument is drawn from
GeometryInputs ==
    {None}
    \cup {Scalar(x) : x \in Coordinates}
    \cup {NumberList(nums) : nums \in NumberLists}
    \cup {PointList(<<p, q>>) : <<p, q>> \in Points \X Points}
    \cup {PointList(ring) : ring \in Rings \cup OpenRings}
    \cup {GeoJSON("Point", <<p>>) : p \in Points}
    \cup {GeoJSON("Polygon", ring) : ring \in Rings}
    \cup {GeoJSON("InvalidType", <<>>)}
    \cup {WKT("POINT", <<p[1], p[2]>>) : p \in Points}
    \cup {WKT("POINT", <<x>>) : x \in Coordinates}
    \cup {WKT("POLYGON", Flat(ring)) : ring \in Rings}
    \cup {WKT("INVALID", <<>>)}
    \cup {GeometryObject("Point", <<p>>) : p \in Points}
    \cup {GeometryObject("Polygon", ring) : ring \in Rings}

\* the footprints an item comes with: (geometry, bbox)
ItemFootprints ==
    {<<None, None>>,
     <<None, NumberList(<<0, 0, 1>>)>>,
     <<GeoJSON("InvalidType", <<>>), NumberList(<<0, 0, 1, 1>>)>>,
     <<GeoJSON("Point", <<<<1, 1>>>>), None>>,
     <<GeoJSON("Point", <<<<1, 1>>>>), NumberList(<<1, 1, 1, 1>>)>>,
     <<GeoJSON("Polygon", Ring(1, 1, 2, 2)), NumberList(<<1, 1, 2, 2>>)>>,
     <<None, NumberList(<<0, 0, 1, 1>>)>>,
     <<None, NumberList(<<1, 1, 2, 2>>)>>,
     <<None, NumberList(<<1, 0, 1, 1>>)>>}

\* the item collections: item k of a collection has id k
ItemCollections ==
    UNION {{[k \in 1..n |-> Item(k, f[k][1], f[k][2])] :
               f \in [1..n -> ItemFootprints]} : n \in 0..MaxItems}

FilterInit ==
    /\ NoSearch
    /\ PYSTAC_AVAILABLE = FALSE
    /\ searches = <<>>
    /\ dicts = <<>>
    /\ acting = 0
    /\ stac_items \in ItemCollections
    /\ geometry \in GeometryInputs
    /\ filtered_items = NotFiltered
    /\ NoClient
    /\ NoDatetime

filter_by_geometry ==
    /\ ~filtered_items.called
    /\ filtered_items' = FilterByGeometry(stac_items, geometry)
    /\ UNCHANGED <<search_vars, PYSTAC_AVAILABLE, pair_vars, stac_items,
                   geometry, client_vars, datetime_vars>>

FilterNext == filter_by_geometry

FilterSpec == FilterInit /\ [][FilterNext]_vars

-----------------------------------------------------------------------------
(* Properties of filter_by_geometry *)

Returns == filtered_items.called /\ ~filtered_items.raised

RECURSIVE IsSubsequence(_, _)
IsSubsequence(sub, seq) ==
    IF sub = <<>> THEN TRUE
    ELSE IF seq = <<>> THEN FALSE
    ELSE IF Head(sub) = Head(seq) THEN IsSubsequence(Tail(sub), Tail(seq))
    ELSE IsSubsequence(sub, Tail(seq))

\* C14: for every item collection and every geometry input that can be read,
\* the result has no more items than the input, holds only items of the
\* input, and holds them in the order of the input.
C14_OrderPreservingSubsequence ==
    Returns =>
        /\ Len(filtered_items.items) <= Len(stac_items)
        /\ \A j \in DOMAIN filtered_items.items :
               \E k \in DOMAIN stac_items :
                   filtered_items.items[j] = stac_items[k]
        /\ IsSubsequence(filtered_items.items, stac_items)

C14_Witness ==
    /\ Returns
    /\ Len(stac_items) >= 2
    /\ Len(filtered_items.items) >= 2
    /\ geometry.kind = "list"

\* the inputs that cannot be read as a geometry: a list of one or of three
\* numbers, the empty list, a single number, a mapping of an unsupported
\* type, a malformed WKT text, None
Uninterpretable(g) ==
    \/ g.kind = "list" /\ Len(g.pts) = 0 /\ Len(g.nums) \in {0, 1, 3}
    \/ g.kind = "number"
    \/ g.kind = "mapping" /\ g.type \notin {"Point", "Polygon"}
    \/ g.kind = "str" /\ g.type \notin {"POINT", "POLYGON"}
    \/ g.kind = "str" /\ g.type = "POINT" /\ Len(g.nums) # 2
    \/ g = None

\* C15: a geometry input that cannot be read makes the call raise a geometry
\* error, with no result given back; for None the message says
\* "Unsupported geometry type".
C15_GeometryErrorSurfaced ==
    (filtered_items.called /\ Uninterpretable(geometry)) =>
        /\ filtered_items.raised
        /\ filtered_items.message # ""
        /\ geometry = None =>
               filtered_items.message = "Unsupported geometry type"

C15_Witness ==
    /\ filtered_items.called
    /\ geometry = None
    /\ filtered_items.raised
    /\ \E k \in DOMAIN stac_items : Footprint(stac_items[k]).ok

TwoPoints(g) == g.kind = "list" /\ Len(g.nums) = 0 /\ Len(g.pts) = 2

\* C16: a list of exactly two points is read as the bounding box that has the
\* two points as diagonal corners (the smaller and the larger value on each
\* axis), the same box in either order of the points, without an error.
C16_TwoPointsSpanBox ==
    (filtered_items.called /\ TwoPoints(geometry)) =>
        LET p == geometry.pts[1]
            q == geometry.pts[2]
            box == filtered_items.query.box
        IN  /\ ~filtered_items.raised
            /\ filtered_items.query.type = "BoundingBox"
            /\ box[1] = (IF p[1] <= q[1] THEN p[1] ELSE q[1])
            /\ box[2] = (IF p[2] <= q[2] THEN p[2] ELSE q[2])
            /\ box[3] = (IF p[1] <= q[1] THEN q[1] ELSE p[1])
            /\ box[4] = (IF p[2] <= q[2] THEN q[2] ELSE p[2])
            /\ Normalize(PointList(<<q, p>>)) = filtered_items.query

C16_Witness ==
    /\ Returns
    /\ TwoPoints(geometry)
    /\ geometry.pts[1][1] > geometry.pts[2][1]
    /\ geometry.pts[1][2] < geometry.pts[2][2]
    /\ filtered_items.items # <<>>

HasBBox(item) == item.bbox # None /\ Len(item.bbox.nums) = 4

\* [west, south, east, north] of all the items' boxes together
FullExtent(item_list) ==
    NumberList(<<Min({item_list[k].bbox.nums[1] : k \in DOMAIN item_list}),
                 Min({item_list[k].bbox.nums[2] : k \in DOMAIN item_list}),
                 Max({item_list[k].bbox.nums[3] : k \in DOMAIN item_list}),
                 Max({item_list[k].bbox.nums[4] : k \in DOMAIN item_list})>>)

\* C17: when every item has a bounding box and the geometry is the full
\* extent of those boxes, the result is the whole input, also for an item
\* whose box is degenerate or lies on the edge of the extent.
C17_FullExtentKeepsAll ==
    ( /\ filtered_items.called
      /\ stac_items # <<>>
      /\ \A k \in DOMAIN stac_items :
             /\ HasBBox(stac_items[k])
             /\ stac_items[k].geometry # None =>
                    Normalize(stac_items[k].geometry).ok
      /\ geometry = FullExtent(stac_items) ) =>
        /\ ~filtered_items.raised
        /\ filtered_items.items = stac_items

\* C18: each item is decided on its geometry when it has one, otherwise on
\* the box of its bbox; an item with neither, or with a footprint that
\* cannot be read, is left out and the call still returns.
C18_FootprintOrder ==
    (filtered_items.called /\ Normalize(geometry).ok) =>
        /\ ~filtered_items.raised
        /\ \A k \in DOMAIN stac_items :
               LET item == stac_items[k]
                   q == filtered_items.query
                   kept == \E j \in DOMAIN filtered_items.items :
                               filtered_items.items[j] = item
               IN  IF item.geometry # None
                   THEN kept <=> /\ Normalize(item.geometry).ok
                                 /\ Intersects(q, Normalize(item.geometry))
                   ELSE IF item.bbox # None
                   THEN kept <=> /\ Len(item.bbox.nums) = 4
                                 /\ Intersects(q,
                                        BoundingBox(item.bbox.nums[1],
                                                    item.bbox.nums[2],
                                                    item.bbox.nums[3],
                                                    item.bbox.nums[4]))
                   ELSE ~kept

C18_Witness ==
    /\ Returns
    /\ Len(stac_items) = 2
    /\ stac_items[1].geometry # None
    /\ HasBBox(stac_items[1])
    /\ filtered_items.query.type = "BoundingBox"
    /\ ~Overlaps(filtered_items.query.box, stac_items[1].bbox.nums)
    /\ ~Footprint(stac_items[2]).ok
    /\ filtered_items.items = <<stac_items[1]>>
    /\ filtered_items.skipped = 1

-----------------------------------------------------------------------------
(* _format_datetime_rfc3339 applied to one input, and to its own result *)

Dates == {"2023-01-01", "2023-01-31"}

Times == {"00:00:00", "12:00:00", "23:59:59"}

\* a date, a timestamp without "Z", a timestamp with "Z"
DateOnly == {<<d>> : d \in Dates}

Timestamps ==
    {<<d, "T", time>> : d \in Dates, time \in Times}
    \cup {<<d, "T", time, "Z">> : d \in Dates, time \in Times}

Endpoints == DateOnly \cup Timestamps

\* start/end
Range(start_date, end_date) == start_date \o <<"/">> \o end_date

DatetimeInputs ==
    {DatetimeNone, DatetimeStr(<<>>)}
    \cup {DatetimeStr(e) : e \in Endpoints}
    \cup {DatetimeStr(Range(a, b)) : a \in Endpoints, b \in Endpoints}
    \cup {DatetimeStr(Range(a, Range(a, b))) : a \in DateOnly, b \in DateOnly}
    \cup {DatetimeObject(d, time) : d \in Dates, time \in Times}

DatetimeInit ==
    /\ NoSearch
    /\ PYSTAC_AVAILABLE = FALSE
    /\ searches = <<>>
    /\ dicts = <<>>
    /\ acting = 0
    /\ NoFilter
    /\ NoClient
    /\ datetime_input \in DatetimeInputs
    /\ formatted_datetime = NotFormatted
    /\ reformatted_datetime = NotFormatted

_format_datetime_rfc3339 ==
    /\ formatted_datetime = NotFormatted
    /\ formatted_datetime' = FormatDatetimeRfc3339(datetime_input)
    /\ UNCHANGED <<search_vars, PYSTAC_AVAILABLE, pair_vars, filter_vars,
                   client_vars, datetime_input, reformatted_datetime>>

\* the result is given to the function again
FormatAgain ==
    /\ formatted_datetime.kind \in {"None", "str"}
    /\ reformatted_datetime = NotFormatted
    /\ reformatted_datetime' = FormatDatetimeRfc3339(formatted_datetime)
    /\ UNCHANGED <<search_vars, PYSTAC_AVAILABLE, pair_vars, filter_vars,
                   client_vars, datetime_input, formatted_datetime>>

DatetimeNext == _format_datetime_rfc3339 \/ FormatAgain

DatetimeSpec == DatetimeInit /\ [][DatetimeNext]_vars

\* the input is a start/end range of two dates or timestamps
IsRange(input) ==
    /\ input.kind = "str"
    /\ \E a \in Endpoints, b \in Endpoints : input.str = Range(a, b)

\* the part of a range before, and after, its separator
StartOf(str) == SubSeq(str, 1, (CHOOSE i \in Separators(str) : TRUE) - 1)

EndOf(str) == SubSeq(str, (CHOOSE i \in Separators(str) : TRUE) + 1, Len(str))

\* the endpoint has a time part and ends with Z
Complete(endpoint) == Contains(endpoint, "T") /\ EndsWith(endpoint, "Z")

\* C27: for every start/end range, both endpoints of the result have a time
\* part and a trailing Z (a date-only start gets T00:00:00Z, a date-only end
\* T23:59:59Z) whatever the two endpoints are, and the function returns its
\* own result unchanged.
C27_RangeEndpointsComplete ==
    (IsRange(datetime_input) /\ formatted_datetime # NotFormatted) =>
        /\ formatted_datetime.kind = "str"
        /\ Cardinality(Separators(formatted_datetime.str)) = 1
        /\ Complete(StartOf(formatted_datetime.str))
        /\ Complete(EndOf(formatted_datetime.str))
        /\ StartOf(datetime_input.str) \in DateOnly =>
               StartOf(formatted_datetime.str) =
                   StartOf(datetime_input.str) \o <<"T", "00:00:00", "Z">>
        /\ EndOf(datetime_input.str) \in DateOnly =>
               EndOf(formatted_datetime.str) =
                   EndOf(datetime_input.str) \o <<"T", "23:59:59", "Z">>
        /\ reformatted_datetime # NotFormatted =>
               reformatted_datetime = formatted_datetime

-----------------------------------------------------------------------------
(* One search() call on an EarthSearchCollections client, and the           *)
(* operations on the search object it returns                               *)

\* self.collections: the ids fetched at construction, {} when that failed
KnownCollections == {{}, {"sentinel-2-l2a", "landsat-c2-l2"}}

CollectionArgs ==
    {NoList, List(<<>>), List(<<"sentinel-2-l2a">>),
     List(<<"no-such-collection">>),
     List(<<"sentinel-2-l2a", "no-such-collection">>)}

BBoxArgs ==
    {NoList} \cup {List(SubSeq(<<0, 0, 1, 1, 2>>, 1, n)) : n \in {0, 3, 4, 5}}

DatetimeArgs ==
    {DatetimeArg("None", <<>>),
     DatetimeArg("tuple", <<<<"2023-01-01">>, <<"2023-01-31">>>>),
     DatetimeArg("str", <<<<"2023-01-01", "T", "12:00:00", "Z">>>>),
     DatetimeArg("list", <<<<"2023-01-01">>, <<"2023-01-31">>,
                           <<"2023-01-31">>>>)}

\* the calls searched with: every collections with every bbox, every
\* datetime with and without intersects and query, every limit with every
\* max_items
SearchArgsSet ==
    {SearchArgs(c, FALSE, b, DatetimeArg("None", <<>>), FALSE, DefaultLimit, 0) :
        c \in CollectionArgs, b \in BBoxArgs}
    \cup {SearchArgs(NoList, i, List(<<0, 0, 1, 1>>), d, q, DefaultLimit, 0) :
            i \in BOOLEAN, d \in DatetimeArgs, q \in BOOLEAN}
    \cup {SearchArgs(NoList, FALSE, NoList, DatetimeArg("None", <<>>), FALSE,
                     l, m) :
            l \in {DefaultLimit, MaxPageSize + 1},
            m \in {0, TruncationThreshold}}

\* response.json(): a dict with 'features', a list, or something else
ResponseData ==
    {[kind |-> k, items |-> Records(n, 0, FALSE)] :
        k \in {"features", "list"},
        n \in {0, MaxShort, TruncationThreshold, MaxFetched}}
    \cup {[kind |-> "other", items |-> <<>>]}

\* requests.RequestException: the transport failed, or raise_for_status()
RequestErrors == {"ConnectionError", "HTTPError"}

ClientInit ==
    /\ NoSearch
    /\ PYSTAC_AVAILABLE \in BOOLEAN
    /\ searches = <<>>
    /\ dicts = <<>>
    /\ acting = 0
    /\ NoFilter
    /\ NoDatetime
    /\ collections \in KnownCollections
    /\ search_pc = "ready"
    /\ search_args = NoArgs
    /\ search_payload = NoPayload
    /\ requests_sent = 0
    /\ search_outcome = NotSearched

\* search() raises
SearchRaises(message) ==
    /\ search_pc' = "ready"
    /\ search_outcome' = SearchRaised(message)
    /\ UNCHANGED <<search_vars, PYSTAC_AVAILABLE, pair_vars, filter_vars,
                   datetime_vars, collections, search_args, search_payload,
                   requests_sent>>

\* search() returns the search object s
SearchGives(s, response) ==
    /\ Store(s)
    /\ pc' = "idle"
    /\ cur_op' = "__init__"
    /\ ret' = NoValue
    /\ search_pc' = "ready"
    /\ search_outcome' = SearchReturned(response)
    /\ UNCHANGED <<PYSTAC_AVAILABLE, pystac_calls, chunking_calls,
                   pystac_answer, chunking_answer, first_all, pair_vars,
                   filter_vars, datetime_vars, collections, search_args,
                   search_payload, requests_sent>>

\* search(...), up to its ValueError or its requests.post
search ==
    /\ search_pc = "ready"
    /\ search_outcome = NotSearched
    /\ \E args \in SearchArgsSet :
          LET e == SearchEntry(collections, args)
          IN  /\ search_args' = args
              /\ search_payload' = e.payload
              /\ IF e.raised
                 THEN /\ search_pc' = "ready"
                      /\ search_outcome' = SearchRaised(e.message)
                      /\ requests_sent' = requests_sent
                 ELSE /\ search_pc' = "post"
                      /\ search_outcome' = NotSearched
                      /\ requests_sent' = requests_sent + 1
    /\ UNCHANGED <<search_vars, PYSTAC_AVAILABLE, pair_vars, filter_vars,
                   datetime_vars, collections>>

\* the request succeeded and response.json() gave data
PostReturns ==
    /\ search_pc = "post"
    /\ \E data \in ResponseData :
          SearchGives(
              SearchObjectOf(ClientSearchResults(
                  ResponseItems(data, search_args.max_items),
                  search_payload, "")),
              "ok")

\* the exception leaves search()
PostFails_Propagates ==
    /\ search_pc = "post"
    /\ \E error \in RequestErrors : SearchRaises(error)

\* requests.post or raise_for_status() raised a RequestException
PostFails ==
    /\ search_pc = "post"
    /\ \E error \in RequestErrors :
          SearchGives(
              SearchObjectOf(ClientSearchResults(<<>>, NoPayload, error)),
              error)

\* response.json() raised: a RequestException with some versions of
\* requests (caught at line 163), a plain ValueError with others
PostInvalidJson ==
    /\ search_pc = "post"
    /\ \E caught \in BOOLEAN :
          IF caught
          THEN SearchGives(
                   SearchObjectOf(ClientSearchResults(<<>>, NoPayload,
                                                      "JSONDecodeError")),
                   "JSONDecodeError")
          ELSE SearchRaises("JSONDecodeError")

\* search() returned a search object
HasResult == search_outcome.kind = "returned"

ClientNext ==
    \/ search
    \/ PostReturns
    \/ PostFails
    \/ PostInvalidJson
    \/ HasResult /\ get_all_items
    \/ HasResult /\ item_collection
    \/ HasResult /\ items
    \/ HasResult /\ matched
    \/ HasResult /\ total_items
    \/ HasResult /\ list_product_ids
    \/ HasResult /\ get_fallback_status
    \/ HasResult /\ __len__
    \/ HasResult /\ __repr__

ClientSpec == ClientInit /\ [][ClientNext]_vars

-----------------------------------------------------------------------------
(* Properties of search() and of the search objects it returns *)

\* C23: a search object built without a client instance, as every result of
\* EarthSearchCollections.search is, never invokes a retrieval collaborator
\* and never sets fallback_attempted, with exactly 100 direct-page items
\* too; get_all_items() returns the direct-page items.
C23_NoClientNoEscalation ==
    HasResult =>
        /\ _client = "None"
        /\ pc = "idle"
        /\ pystac_calls = 0
        /\ chunking_calls = 0
        /\ ~_fallback_attempted
        /\ ~TierEntered
        /\ AllItemsReturned => ret = Collection(_items)

C23_Witness ==
    /\ HasResult
    /\ PYSTAC_AVAILABLE
    /\ Len(_items) = TruncationThreshold
    /\ search_payload.limit = DefaultLimit
    /\ AllItemsReturned
    /\ cur_op = "get_all_items"
    /\ ret = Collection(_items)

\* search() was called
Searched == search_pc = "post" \/ search_outcome # NotSearched

\* a name of the collections argument is not a known collection
UnknownCollection ==
    \E i \in DOMAIN search_args.collections.list :
        search_args.collections.list[i] \notin collections

\* search() raised ValueError and sent no request
Rejected ==
    /\ search_outcome.kind = "raised"
    /\ search_outcome.message \in
           {"Invalid collections", "bbox must be [west, south, east, north]"}
    /\ requests_sent = 0
    /\ search_payload = NoPayload

\* C25 as stated: an unknown collection name, or a bbox whose length is not
\* 4, makes search() raise ValueError, and no search request is sent.
C25_InvalidInputRejected ==
    ( /\ Searched
      /\ \/ UnknownCollection
         \/ ~search_args.bbox.isNone /\ Len(search_args.bbox.list) # 4 )
    => Rejected

\* C25 as amended: an unknown collection name, or a bbox that is not empty
\* and whose length is not 4, makes search() raise ValueError, and no search
\* request is sent.
C25_NonEmptyInvalidInputRejected ==
    ( /\ Searched
      /\ \/ UnknownCollection
         \/ Len(search_args.bbox.list) \notin {0, 4} )
    => Rejected

C25_Witness ==
    /\ Rejected
    /\ ~UnknownCollection
    /\ search_args.collections.list # <<>>
    /\ Len(search_args.bbox.list) = 3
    /\ search_outcome.message = "bbox must be [west, south, east, north]"

\* C26: when the search request fails with a transport or HTTP error,
\* search() does not raise: it returns a search object with no items that
\* carries the error, and get_all_items, len, matched and list_product_ids
\* of it report nothing found, with no fallback tier attempted.
C26_RequestFailureGivesEmptyResult ==
    search_outcome.message \in RequestErrors =>
        /\ search_outcome.kind = "returned"
        /\ requests_sent = 1
        /\ _results.error = search_outcome.message
        /\ _results.features = <<>>
        /\ _items = <<>>
        /\ pc = "idle"
        /\ pystac_calls = 0
        /\ chunking_calls = 0
        /\ ~_fallback_attempted
        /\ ~TierEntered
        /\ cur_op \in {"get_all_items", "item_collection"} =>
               ret = Collection(<<>>)
        /\ cur_op \in {"__len__", "matched", "total_items"} => ret = Count(0)
        /\ cur_op = "list_product_ids" => ret.kind = "ids" /\ ret.ids = {}
        /\ cur_op = "items" => ret.items = <<>>

C26_Witness ==
    /\ search_outcome = SearchReturned("HTTPError")
    /\ PYSTAC_AVAILABLE
    /\ cur_op = "matched"
    /\ ret = Count(0)
    /\ first_all.by = "get_all_items"
    /\ "fallback_matched" \in DOMAIN _fallback_metadata_cache

====
